---------------------------- MODULE Spec2Model ----------------------------
(***************************************************************************)
(* A model of streamlit_app.py, the NFL Stats Explorer dashboard.          *)
(*                                                                         *)
(* The program is a script that is run from top to bottom once at start    *)
(* and once after every widget interaction.  A state of the model is the   *)
(* state between two runs: the record source's data, the st.cache_data     *)
(* store, the wall clock, the widget/session state, and what the last run  *)
(* rendered.  Every action is one interaction followed by the whole run.   *)
(*                                                                         *)
(* Data frames are records [cols, rows]: cols is the sequence of column    *)
(* names, rows a sequence of records.  A NaN/None cell is a field that is  *)
(* absent from the row although its column is in cols.                     *)
(***************************************************************************)
EXTENDS Integers, Sequences, FiniteSets, TLC

VARIABLES
    source,     \* the record source (nfl_data_py): year -> season data
    cache,      \* st.cache_data: <<loader, year>> -> [value, stored]
    clock,      \* wall clock, seconds
    session,    \* widget state and st.session_state
    view        \* what the last run of the script rendered

vars == <<source, cache, clock, session, view>>

---------------------------------------------------------------------------
(* Bounds of the model. *)

MaxWeek == 3        \* weeks of a season are 1..MaxWeek
CrowdSize == 21     \* players of a "crowded" table; more than TopN
MaxEvents == 3      \* play events of a drawn play-by-play table
MaxTicks == 2       \* clock steps

---------------------------------------------------------------------------
(* Program constants. *)

TopN == 20
TTL == 60 * 60 * 12
Years == <<2025, 2024, 2023, 2022>>
DefaultYear == Years[1 + 1]
SeasonTypes == <<"All", "Regular Season", "Postseason">>
Categories == <<"Offense", "Defense", "Next Gen Stats">>
NgsTypes == <<"Passing", "Rushing", "Receiving">>

def_stats_dict == <<
    [stat_name |-> "sacks", flag_col |-> "sack", player_col |-> "sack_player_name"],
    [stat_name |-> "interceptions", flag_col |-> "interception",
     player_col |-> "interception_player_name"],
    [stat_name |-> "fumbles_forced", flag_col |-> "fumble_forced",
     player_col |-> "forced_fumble_player_1_player_name"],
    [stat_name |-> "passes_defended", flag_col |-> "pass_defense_1_player_name",
     player_col |-> "pass_defense_1_player_name"],
    [stat_name |-> "fumbles_recovered", flag_col |-> "fumble",
     player_col |-> "fumble_recovery_1_player_name"] >>

OFFENSE_STATS == <<
    <<"Passing Yards", "passing_yards">>, <<"Passing TDs", "passing_tds">>,
    <<"Interceptions Thrown", "interceptions">>, <<"Sacks Taken", "sacks">>,
    <<"Rushing Yards", "rushing_yards">>, <<"Rushing TDs", "rushing_tds">>,
    <<"Receptions", "receptions">>, <<"Receiving Yards", "receiving_yards">>,
    <<"Receiving TDs", "receiving_tds">> >>

DEFENSE_STATS == <<
    <<"Sacks", "sacks">>, <<"Interceptions", "interceptions">>,
    <<"Passes Defended", "passes_defended">>, <<"Forced Fumbles", "fumbles_forced">>,
    <<"Fumbles Recovered", "fumbles_recovered">> >>

NGS_TRANSLATIONS == <<
    <<"avg_time_to_throw", "Avg Time to Throw (sec)">>,
    <<"avg_completed_air_yards", "Avg Completed Air Yards">>,
    <<"avg_intended_air_yards", "Avg Intended Air Yards">>,
    <<"efficiency", "Rushing Efficiency">>,
    <<"rush_yards_over_expected", "Rush Yards Over Expected">> >>

---------------------------------------------------------------------------
(* Sequences, dictionaries and strings. *)

Range(s) == {s[i] : i \in DOMAIN s}

Min(a, b) == IF a < b THEN a ELSE b

\* dict[key] of a dictionary kept as a sequence of <<key, value>> pairs
DictKeys(d) == [i \in DOMAIN d |-> d[i][1]]
DictValues(d) == [i \in DOMAIN d |-> d[i][2]]
DictGet(d, k) == (CHOOSE p \in Range(d) : p[1] = k)[2]
DictHas(d, k) == \E p \in Range(d) : p[1] = k

\* Python's sorted() on player names, and the key order of groupby and of an
\* outer merge: strings are ordered as they stand in this lexicographically
\* increasing universe of the names the model uses.
CrowdName(i) == "P" \o (IF i < 10 THEN "0" ELSE "") \o ToString(i)
AllNames == <<"A", "B", "C">> \o [i \in 1..CrowdSize |-> CrowdName(i)]
AllPositions == <<"DE", "QB", "WR">>

SortedStrings(universe, S) ==
    LET In(x) == x \in S IN SelectSeq(universe, In)

\* 'avg' in stat_column, over the columns a Next Gen stat can be
HasAvg(col) ==
    col \in {"avg_time_to_throw", "avg_completed_air_yards", "avg_intended_air_yards"}

---------------------------------------------------------------------------
(* Data frames. *)

EmptyFrame == [cols |-> <<>>, rows |-> <<>>]

HasCol(df, c) == c \in Range(df.cols)
IsNa(row, c) == c \notin DOMAIN row
IsEmpty(df) == df.rows = <<>> \/ df.cols = <<>>

\* Series.sum(): NaN cells are skipped, the sum of nothing is 0
RECURSIVE SumCol(_, _)
SumCol(rows, c) ==
    IF rows = <<>> THEN 0
    ELSE (IF IsNa(Head(rows), c) THEN 0 ELSE Head(rows)[c]) + SumCol(Tail(rows), c)

\* h put into rows that are in descending order of column c, before the
\* first row that is not above it
InsertDesc(h, rows, c) ==
    LET Above(r) == r[c] > h[c]
        NotAbove(r) == ~(r[c] > h[c])
    IN  SelectSeq(rows, Above) \o <<h>> \o SelectSeq(rows, NotAbove)

\* DataFrame.sort_values(by=c, ascending=False); rows of equal value keep
\* their order (the order among ties is the sort algorithm's business and no
\* property below depends on it)
RECURSIVE SortDesc(_, _)
SortDesc(rows, c) ==
    IF rows = <<>> THEN <<>>
    ELSE InsertDesc(Head(rows), SortDesc(Tail(rows), c), c)

\* a head() that cuts nothing
HeadAll(rows, n) == rows
\* DataFrame.head(n)
HeadRows(rows, n) == SubSeq(rows, 1, Min(n, Len(rows)))

\* reset_index(drop=True); index = index + 1: the rank is the row label
Ranked(rows) == [i \in DOMAIN rows |-> rows[i] @@ [rank |-> i]]

\* df[cs], of one row and of all rows
Project(row, cs) == [c \in (Range(cs) \cap DOMAIN row) |-> row[c]]
ProjectRows(rows, cs) == [i \in DOMAIN rows |-> Project(rows[i], cs)]

RECURSIVE Concat(_)
Concat(ss) == IF ss = <<>> THEN <<>> ELSE Head(ss) \o Concat(Tail(ss))

\* the values a column takes in the rows that have it
ColValues(rows, c) == {rows[i][c] : i \in {j \in DOMAIN rows : ~IsNa(rows[j], c)}}

\* the rows whose column key is k
RowsAt(rows, key, k) ==
    LET T(r) == ~IsNa(r, key) /\ r[key] = k IN SelectSeq(rows, T)

\* DataFrame.rename(columns=d): d is a sequence of <<old, new>> pairs; as in
\* a Python dict literal, the last pair of a repeated key is the one kept
RenameCol(c, d) ==
    IF DictHas(d, c)
    THEN d[CHOOSE i \in DOMAIN d : d[i][1] = c /\ \A j \in DOMAIN d : d[j][1] = c => j <= i][2]
    ELSE c

RenameRow(row, d) ==
    [c2 \in {RenameCol(c, d) : c \in DOMAIN row} |->
        row[CHOOSE c \in DOMAIN row : RenameCol(c, d) = c2]]

RenameFrame(df, d) ==
    [cols |-> [i \in DOMAIN df.cols |-> RenameCol(df.cols[i], d)],
     rows |-> [i \in DOMAIN df.rows |-> RenameRow(df.rows[i], d)]]

\* the rows of a groupby over one key column, its groups ks in key order
SizeRows(rows, key, out, ks) ==
    [i \in DOMAIN ks |-> (key :> ks[i]) @@ (out :> Len(RowsAt(rows, key, ks[i])))]
SumRows(rows, key, val, ks) ==
    [i \in DOMAIN ks |-> (key :> ks[i]) @@ (val :> SumCol(RowsAt(rows, key, ks[i]), val))]

\* df.groupby(key).size().reset_index(name=out): one row per key value, in
\* key order; rows whose key is NaN belong to no group
GroupSize(df, key, out) ==
    [cols |-> <<key, out>>,
     rows |-> SizeRows(df.rows, key, out, SortedStrings(AllNames, ColValues(df.rows, key)))]

\* df.groupby(key)[val].sum().reset_index()
GroupSum(df, key, val) ==
    [cols |-> <<key, val>>,
     rows |-> SumRows(df.rows, key, val, SortedStrings(AllNames, ColValues(df.rows, key)))]

---------------------------------------------------------------------------
(* load_and_aggregate_pbp_data *)

SizeKinds == {"passes_defended", "fumbles_recovered"}

\* the loop body of one defensive kind; reading a flag column the events do
\* not have raises KeyError
KindRaises(pbp_df, kind) ==
    /\ HasCol(pbp_df, kind.player_col)
    /\ kind.stat_name \notin SizeKinds
    /\ ~HasCol(pbp_df, kind.flag_col)

\* lines 43-50, of the events df_filtered that name a player of the kind
KindFrameOf(df_filtered, kind) ==
    LET Flagged(r) == ~IsNa(r, kind.flag_col) /\ r[kind.flag_col] = 1
    IN  RenameFrame(
            IF kind.stat_name \in SizeKinds
            THEN GroupSize(df_filtered, kind.player_col, kind.stat_name)
            ELSE GroupSum([df_filtered EXCEPT !.rows = SelectSeq(df_filtered.rows, Flagged)],
                          kind.player_col, kind.flag_col),
            << <<kind.flag_col, kind.stat_name>>,
               <<kind.player_col, "player_display_name">> >>)

KindFrame(pbp_df, kind) ==
    LET NotNa(r) == ~IsNa(r, kind.player_col)
    IN  KindFrameOf([pbp_df EXCEPT !.rows = SelectSeq(pbp_df.rows, NotNa)], kind)

\* the rows a merge makes of the keys ks: a key of both sides gives every
\* pairing of its rows, a key of one side its rows with the other side's
\* columns NaN
PairRows(ls, rs) ==
    IF ls = <<>> THEN rs
    ELSE IF rs = <<>> THEN ls
    ELSE Concat([i \in DOMAIN ls |-> [j \in DOMAIN rs |-> ls[i] @@ rs[j]]])

MergeRows(left, right, key, ks) ==
    Concat([i \in DOMAIN ks |->
              PairRows(RowsAt(left.rows, key, ks[i]), RowsAt(right.rows, key, ks[i]))])

MergeCols(left, right, key) ==
    LET NotKey(c) == c # key IN left.cols \o SelectSeq(right.cols, NotKey)

\* pd.merge(left, right, on=key, how='inner'): a slip of the join
MergeInner(left, right, key) ==
    [cols |-> MergeCols(left, right, key),
     rows |-> MergeRows(left, right, key,
                 SortedStrings(AllNames,
                     ColValues(left.rows, key) \cap ColValues(right.rows, key)))]

\* pd.merge(left, right, on=key, how='outer'): keys in sorted order
MergeOuter(left, right, key) ==
    [cols |-> MergeCols(left, right, key),
     rows |-> MergeRows(left, right, key,
                 SortedStrings(AllNames,
                     ColValues(left.rows, key) \cup ColValues(right.rows, key)))]

\* the rows a left merge makes of the left row l, rs its matches
LeftRows(l, rs) == IF rs = <<>> THEN <<l>> ELSE [j \in DOMAIN rs |-> l @@ rs[j]]

\* pd.merge(left, right, on=key, how='left'): the left rows in their order
MergeLeft(left, right, key) ==
    [cols |-> MergeCols(left, right, key),
     rows |-> Concat([i \in DOMAIN left.rows |->
                 LeftRows(left.rows[i],
                          IF IsNa(left.rows[i], key) THEN <<>>
                          ELSE RowsAt(right.rows, key, left.rows[i][key]))])]

\* functools.reduce(merge, frames), frames not empty
RECURSIVE ReduceMerge(_, _)
ReduceMerge(acc, frames) ==
    IF frames = <<>> THEN acc
    ELSE ReduceMerge(MergeOuter(acc, Head(frames), "player_display_name"), Tail(frames))

\* DataFrame.fillna(0)
FillNa0(df) ==
    [df EXCEPT !.rows = [i \in DOMAIN df.rows |->
        df.rows[i] @@ [c \in Range(df.cols) |-> 0]]]

\* rows[idx[1]], rows[idx[2]], ...
TakeRows(rows, idx) == [n \in DOMAIN idx |-> rows[idx[n]]]

\* DataFrame.drop_duplicates(subset=[key]): the first row of each key stays
DropDuplicates(df, key) ==
    LET First(i) == \A j \in 1..(i - 1) :
                        IsNa(df.rows[j], key) # IsNa(df.rows[i], key)
                        \/ (~IsNa(df.rows[i], key) /\ df.rows[j][key] # df.rows[i][key])
    IN  [df EXCEPT !.rows = TakeRows(df.rows, SelectSeq([i \in DOMAIN df.rows |-> i], First))]

\* lines 61-62
PlayerPositions(rosters_df) ==
    DropDuplicates(
        RenameFrame([cols |-> <<"player_name", "position">>,
                     rows |-> ProjectRows(rosters_df.rows, <<"player_name", "position">>)],
                    << <<"player_name", "player_display_name">> >>),
        "player_display_name")

\* lines 53-65, of the appended per-kind frames
AggregateFrames(aggregated_stats, rosters_df) ==
    IF aggregated_stats = <<>> THEN EmptyFrame
    ELSE MergeLeft(FillNa0(ReduceMerge(Head(aggregated_stats), Tail(aggregated_stats))),
                   PlayerPositions(rosters_df), "player_display_name")

\* lines 40-51
AggregatedStats(pbp_df) ==
    LET Appended(k) == HasCol(pbp_df, k.player_col)
    IN  [i \in DOMAIN SelectSeq(def_stats_dict, Appended) |->
            KindFrame(pbp_df, SelectSeq(def_stats_dict, Appended)[i])]

\* [ok |-> FALSE]: the call raised; otherwise df is the frame returned
load_and_aggregate_pbp_data(pbp_df, rosters_df) ==
    IF \E i \in DOMAIN def_stats_dict : KindRaises(pbp_df, def_stats_dict[i])
    THEN [ok |-> FALSE, df |-> EmptyFrame]
    ELSE [ok |-> TRUE, df |-> AggregateFrames(AggregatedStats(pbp_df), rosters_df)]

---------------------------------------------------------------------------
(* The script: widgets. *)

COLUMN_RENAME_MAP ==
    << <<"player_display_name", "Player">>, <<"position", "Pos">>, <<"week", "Week">> >>
    \o [i \in DOMAIN OFFENSE_STATS |-> <<OFFENSE_STATS[i][2], OFFENSE_STATS[i][1]>>]
    \o [i \in DOMAIN DEFENSE_STATS |-> <<DEFENSE_STATS[i][2], DEFENSE_STATS[i][1]>>]

\* A widget that was not rendered by a run has no state after it: "" for a
\* select box, <<0, 0>> for a slider; it shows its default when it is rendered
\* again.  A widget whose options or bounds differ from those of the last run
\* is a new widget and shows its default too.
NoChoice == ""
NoRange == <<0, 0>>

\* st.selectbox(label, options): the kept choice, else the first option
SelectBox(kept, options) ==
    IF kept # NoChoice /\ kept \in Range(options) THEN kept ELSE options[1]

\* st.slider(label, lo, hi, (lo, hi), key=...)
Slider(kept, kept_bounds, lo, hi) ==
    IF kept_bounds = <<lo, hi>> /\ kept # NoRange THEN kept ELSE <<lo, hi>>

\* the widget state left by a run that rendered the sidebar only
SidebarOnly(sess) ==
    [selected_year |-> sess.selected_year,
     season_type_toggle |-> sess.season_type_toggle,
     last_refresh |-> sess.last_refresh,
     main_category |-> NoChoice, defense_stat |-> NoChoice, offense_stat |-> NoChoice,
     ngs_type |-> NoChoice, ngs_stat |-> NoChoice, ngs_stat_options |-> <<>>,
     main_slider |-> NoRange, main_slider_bounds |-> NoRange,
     player_name |-> NoChoice, player_options |-> <<>>,
     player_week_slider |-> NoRange, player_week_slider_bounds |-> NoRange]

\* what a run renders when it renders no result
NoView ==
    [status |-> "ok", messages |-> {},
     has_board |-> FALSE, leaderboard |-> <<>>, stat_column |-> NoChoice,
     groupby_cols |-> <<>>, aggregation |-> NoChoice, week_range |-> NoRange,
     chart |-> FALSE,
     cols_with_data |-> <<>>, has_agg_table |-> FALSE, agg_stats |-> <<>>,
     has_range_table |-> FALSE, range_agg_stats |-> <<>>,
     has_per_game |-> FALSE, per_game |-> <<>>]

---------------------------------------------------------------------------
(* The script: tab1, Top Performers. *)

MinWeek(df) == CHOOSE w \in ColValues(df.rows, "week") : \A v \in ColValues(df.rows, "week") : w <= v
MaxWeekOf(df) == CHOOSE w \in ColValues(df.rows, "week") : \A v \in ColValues(df.rows, "week") : w >= v

\* df[(df['week'] >= lo) & (df['week'] <= hi)]
InWeeks(df, lo, hi) ==
    LET T(r) == ~IsNa(r, "week") /\ r.week >= lo /\ r.week <= hi
    IN  [df EXCEPT !.rows = SelectSeq(df.rows, T)]

\* the group keys a groupby can have, in sorted order: by player, and by
\* player and position
NameKeys == [i \in DOMAIN AllNames |-> [player_display_name |-> AllNames[i]]]
NamePositionKeys ==
    Concat([i \in DOMAIN AllNames |-> [j \in DOMAIN AllPositions |->
        [player_display_name |-> AllNames[i], position |-> AllPositions[j]]]])
KeyUniverse(groupby_cols) ==
    IF groupby_cols = <<"player_display_name">> THEN NameKeys ELSE NamePositionKeys

InGroup(r, k) == \A c \in DOMAIN k : ~IsNa(r, c) /\ r[c] = k[c]

\* the rows of group k
RowsOf(rows, k) == LET T(r) == InGroup(r, k) IN SelectSeq(rows, T)

\* the key of a row; a row with a NaN key column has none
HasKey(r, groupby_cols) == \A i \in DOMAIN groupby_cols : ~IsNa(r, groupby_cols[i])

RowKeys(rows, groupby_cols) ==
    {Project(rows[i], groupby_cols) : i \in {j \in DOMAIN rows : HasKey(rows[j], groupby_cols)}}

\* the sums of the groups ks
SumGroups(rows, stat_column, ks) ==
    [i \in DOMAIN ks |-> ks[i] @@ (stat_column :> SumCol(RowsOf(rows, ks[i]), stat_column))]

\* df.groupby(groupby_cols)[stat_column].sum().reset_index(): one row per
\* group in key order; a row with a NaN key column belongs to no group
GroupBySum(df, groupby_cols, stat_column) ==
    SumGroups(df.rows, stat_column,
              SortedStrings(KeyUniverse(groupby_cols), RowKeys(df.rows, groupby_cols)))

\* no filter on the value
KeepZeroRows(rows, c) == rows
\* leaderboard[leaderboard[stat_column] > 0]
PositiveRows(rows, c) ==
    LET T(r) == r[c] > 0 IN SelectSeq(rows, T)

\* lines 148-152
DefenseLeaderboard(defensive_df, stat_column) ==
    Ranked(ProjectRows(
        HeadRows(PositiveRows(SortDesc(defensive_df.rows, stat_column), stat_column), TopN),
        <<"player_display_name", "position", stat_column>>))

\* lines 182-184
SumLeaderboard(df_for_leaders, groupby_cols, stat_column) ==
    Ranked(HeadRows(SortDesc(GroupBySum(df_for_leaders, groupby_cols, stat_column),
                             stat_column), TopN))

\* ngs_type.lower()
Lower(ngs_type) ==
    CASE ngs_type = "Passing" -> "passing"
      [] ngs_type = "Rushing" -> "rushing"
      [] ngs_type = "Receiving" -> "receiving"

\* line 173
OfSeason(df, selected_year) ==
    LET T(r) == ~IsNa(r, "season") /\ r.season = selected_year
    IN  [df EXCEPT !.rows = SelectSeq(df.rows, T)]

\* line 174: display name -> column, for the columns of the table that
\* NGS_TRANSLATIONS knows, in the table's column order
KnownCols(cols) == LET Known(c) == DictHas(NGS_TRANSLATIONS, c) IN SelectSeq(cols, Known)
NgsStatCols(df) ==
    [i \in DOMAIN KnownCols(df.cols) |->
        <<DictGet(NGS_TRANSLATIONS, KnownCols(df.cols)[i]), KnownCols(df.cols)[i]>>]

\* A part of the script gives [raised, w, v]: whether it raised, the widget
\* state it leaves and what it rendered.

\* lines 145-156
Tab1Defense(w, defensive_df, sub_category_key) ==
    LET stat_column == DictGet(DEFENSE_STATS, sub_category_key)
    IN  [raised |-> FALSE,
         w |-> [w EXCEPT !.defense_stat = sub_category_key],
         v |-> [NoView EXCEPT
                  !.messages = {"defense_note"},
                  !.stat_column = DictGet(DEFENSE_STATS, sub_category_key),
                  !.has_board = HasCol(defensive_df, stat_column),
                  !.leaderboard = IF HasCol(defensive_df, stat_column)
                                  THEN DefenseLeaderboard(defensive_df, stat_column)
                                  ELSE <<>>,
                  !.chart = HasCol(defensive_df, stat_column)]]

\* lines 180-188
Tab1Board(w, df_for_leaders, groupby_cols, stat_column, week_range) ==
    LET shown == HasCol(df_for_leaders, stat_column) /\ ~IsEmpty(df_for_leaders)
    IN  [raised |-> FALSE,
         w |-> w,
         v |-> [NoView EXCEPT
                  !.stat_column = stat_column,
                  !.groupby_cols = groupby_cols,
                  !.week_range = week_range,
                  !.aggregation = IF ~shown THEN NoChoice
                                  ELSE IF ~HasAvg(stat_column) THEN "sum" ELSE "mean",
                  !.has_board = shown,
                  !.leaderboard = IF shown
                                  THEN SumLeaderboard(df_for_leaders, groupby_cols, stat_column)
                                  ELSE <<>>,
                  !.chart = shown]]

\* lines 165-168
Tab1Offense(w, weekly_df, week_range, sub_category_key) ==
    Tab1Board([w EXCEPT !.offense_stat = sub_category_key],
              InWeeks(weekly_df, week_range[1], week_range[2]),
              <<"player_display_name", "position">>,
              DictGet(OFFENSE_STATS, sub_category_key), week_range)

\* lines 174-178; with no option the select box returns None and
\* ngs_stat_cols[None] raises
Tab1NgsStat(sess, w, df_for_leaders, week_range, ngs_stat_cols) ==
    IF ngs_stat_cols = <<>>
    THEN [raised |-> TRUE, w |-> w,
          v |-> [NoView EXCEPT !.status = "error", !.week_range = week_range]]
    ELSE LET sub_category_key ==
                 SelectBox(IF sess.ngs_stat_options = DictKeys(ngs_stat_cols)
                           THEN sess.ngs_stat ELSE NoChoice, DictKeys(ngs_stat_cols))
         IN  Tab1Board([w EXCEPT !.ngs_stat = sub_category_key,
                                 !.ngs_stat_options = DictKeys(ngs_stat_cols)],
                       df_for_leaders, <<"player_display_name">>,
                       DictGet(ngs_stat_cols, sub_category_key), week_range)

\* lines 171-173
Tab1Ngs(sess, w, df_for_leaders, week_range, ngs_type) ==
    Tab1NgsStat(sess, [w EXCEPT !.ngs_type = ngs_type], df_for_leaders, week_range,
                NgsStatCols(df_for_leaders))

\* lines 159-178
Tab1Weeks(sess, w, selected_year, weekly_df, ngs_data_raw, bounds, week_range) ==
    IF w.main_category = "Offense"
    THEN Tab1Offense([w EXCEPT !.main_slider = week_range, !.main_slider_bounds = bounds],
                     weekly_df, week_range,
                     SelectBox(sess.offense_stat, DictKeys(OFFENSE_STATS)))
    ELSE Tab1Ngs(sess, [w EXCEPT !.main_slider = week_range, !.main_slider_bounds = bounds],
                 OfSeason(ngs_data_raw[Lower(SelectBox(sess.ngs_type, NgsTypes))],
                          selected_year),
                 week_range, SelectBox(sess.ngs_type, NgsTypes))

\* lines 134-188
Tab1(sess, selected_year, weekly_df, ngs_data_raw, defensive_df) ==
    IF SelectBox(sess.main_category, Categories) = "Defense"
    THEN Tab1Defense([SidebarOnly(sess) EXCEPT !.main_category = "Defense"], defensive_df,
                     SelectBox(sess.defense_stat, DictKeys(DEFENSE_STATS)))
    ELSE Tab1Weeks(sess,
                   [SidebarOnly(sess) EXCEPT
                       !.main_category = SelectBox(sess.main_category, Categories)],
                   selected_year, weekly_df, ngs_data_raw,
                   <<MinWeek(weekly_df), MaxWeekOf(weekly_df)>>,
                   Slider(sess.main_slider, sess.main_slider_bounds,
                          MinWeek(weekly_df), MaxWeekOf(weekly_df)))

---------------------------------------------------------------------------
(* The script: tab2, Player Search. *)

\* line 208
PlayerRows(weekly_df, player_name) ==
    LET T(r) == ~IsNa(r, "player_display_name") /\ r.player_display_name = player_name
    IN  [weekly_df EXCEPT !.rows = SelectSeq(weekly_df.rows, T)]

\* lines 210-213
ColsWithData(player_weekly_stats) ==
    LET Has(c) == HasCol(player_weekly_stats, c) /\ SumCol(player_weekly_stats.rows, c) > 0
    IN  SelectSeq(DictValues(OFFENSE_STATS), Has)

\* df[cols].sum(), renamed and reset_index'ed: <<Statistic, Value>> rows
StatTable(rows, cols) ==
    [i \in DOMAIN cols |-> <<RenameCol(cols[i], COLUMN_RENAME_MAP), SumCol(rows, cols[i])>>]

\* range_agg_stats[range_agg_stats > 0]
PositiveStats(stats) == LET T(p) == p[2] > 0 IN SelectSeq(stats, T)

\* lines 231-246
Tab2Range(w, v, player_weekly_stats, cols_with_data, bounds, player_week_range, range_agg_stats) ==
    [w |-> [w EXCEPT !.player_week_slider = player_week_range,
                     !.player_week_slider_bounds = bounds],
     v |-> [v EXCEPT
              !.cols_with_data = cols_with_data,
              !.has_agg_table = TRUE,
              !.agg_stats = StatTable(player_weekly_stats.rows, cols_with_data),
              !.has_range_table = range_agg_stats # <<>>,
              !.range_agg_stats = range_agg_stats,
              !.messages = IF range_agg_stats = <<>>
                           THEN @ \cup {"no_stats_in_range"} ELSE @,
              !.has_per_game = TRUE,
              !.per_game = ProjectRows(player_weekly_stats.rows, <<"week">> \o cols_with_data)]]

\* a week range applied to the player's rows themselves
Tab2SliderFiltered(sess, w, v, player_weekly_stats, cols_with_data, bounds, player_week_range) ==
    Tab2Range(w, v, InWeeks(player_weekly_stats, player_week_range[1], player_week_range[2]),
              cols_with_data, bounds, player_week_range,
              PositiveStats(StatTable(
                  InWeeks(player_weekly_stats, player_week_range[1], player_week_range[2]).rows,
                  cols_with_data)))
\* lines 227-229
Tab2Slider(sess, w, v, player_weekly_stats, cols_with_data, bounds, player_week_range) ==
    Tab2Range(w, v, player_weekly_stats, cols_with_data, bounds, player_week_range,
              PositiveStats(StatTable(
                  InWeeks(player_weekly_stats, player_week_range[1], player_week_range[2]).rows,
                  cols_with_data)))

\* lines 215-229
Tab2Summary(sess, w, v, player_weekly_stats, cols_with_data) ==
    IF cols_with_data = <<>>
    THEN [w |-> w, v |-> [v EXCEPT !.messages = @ \cup {"no_recorded_stats"}]]
    ELSE Tab2Slider(sess, w, v, player_weekly_stats, cols_with_data,
                    <<MinWeek(player_weekly_stats), MaxWeekOf(player_weekly_stats)>>,
                    Slider(sess.player_week_slider, sess.player_week_slider_bounds,
                           MinWeek(player_weekly_stats), MaxWeekOf(player_weekly_stats)))

\* lines 208-213
Tab2Player(sess, w, v, player_weekly_stats) ==
    Tab2Summary(sess, w, v, player_weekly_stats, ColsWithData(player_weekly_stats))

\* lines 202-255
Tab2(sess, w, v, weekly_df, all_players) ==
    LET player_name ==
            SelectBox(IF sess.player_options = all_players THEN sess.player_name ELSE NoChoice,
                      all_players)
    IN  Tab2Player(sess,
                   [w EXCEPT !.player_name = player_name, !.player_options = all_players],
                   v, PlayerRows(weekly_df, player_name))

---------------------------------------------------------------------------
(* The cache and one run of the script. *)

\* st.cache_data(ttl=...): an entry answers until its time to live is over
CacheHit(cch, key, now) == key \in DOMAIN cch /\ now < cch[key].stored + TTL

CachePut(cch, key, value, now) ==
    [k \in DOMAIN cch \cup {key} |->
        IF k = key THEN [value |-> value, stored |-> now] ELSE cch[k]]

\* lines 16-20
load_weekly_and_ngs_data(season) == [weekly |-> season.weekly, ngs |-> season.ngs]

\* a call of a cached loader that returned value: [raised, value, cache]
Cached(cch, key, now, result) ==
    IF CacheHit(cch, key, now)
    THEN [raised |-> FALSE, value |-> cch[key].value, cache |-> cch]
    ELSE IF ~result.ok
    THEN [raised |-> TRUE, value |-> result.df, cache |-> cch]
    ELSE [raised |-> FALSE, value |-> result.df, cache |-> CachePut(cch, key, result.df, now)]

\* lines 117-122
SeasonTypeFilter(weekly_df_raw, season_type_toggle) ==
    LET Reg(r) == ~IsNa(r, "season_type") /\ r.season_type = "REG"
        Post(r) == ~IsNa(r, "season_type") /\ r.season_type = "POST"
    IN  IF season_type_toggle = "Regular Season"
        THEN [weekly_df_raw EXCEPT !.rows = SelectSeq(weekly_df_raw.rows, Reg)]
        ELSE IF season_type_toggle = "Postseason"
        THEN [weekly_df_raw EXCEPT !.rows = SelectSeq(weekly_df_raw.rows, Post)]
        ELSE weekly_df_raw

\* lines 134-255
RunTabs(sess, cch, t1, weekly_df) ==
    IF t1.raised
    THEN [session |-> t1.w, cache |-> cch, view |-> t1.v]
    ELSE [session |-> Tab2(sess, t1.w, t1.v, weekly_df,
                           SortedStrings(AllNames,
                               ColValues(weekly_df.rows, "player_display_name"))).w,
          cache |-> cch,
          view |-> Tab2(sess, t1.w, t1.v, weekly_df,
                        SortedStrings(AllNames,
                            ColValues(weekly_df.rows, "player_display_name"))).v]

\* lines 117-255
RunFiltered(sess, cch, ngs_data_raw, defensive_df, weekly_df) ==
    IF IsEmpty(weekly_df)
    THEN [session |-> SidebarOnly(sess), cache |-> cch,
          view |-> [NoView EXCEPT !.status = "stopped", !.messages = {"no_offensive_data"}]]
    ELSE RunTabs(sess, cch,
                 Tab1(sess, sess.selected_year, weekly_df, ngs_data_raw, defensive_df),
                 weekly_df)

\* lines 115-255
RunLoaded(sess, loaded, pbp) ==
    IF pbp.raised
    THEN [session |-> SidebarOnly(sess), cache |-> pbp.cache,
          view |-> [NoView EXCEPT !.status = "error"]]
    ELSE RunFiltered(sess, pbp.cache, loaded.ngs, pbp.value,
                     SeasonTypeFilter(loaded.weekly, sess.season_type_toggle))

\* lines 114-255
RunWeekly(sess, src, now, weekly) ==
    RunLoaded(sess, weekly.value,
              Cached(weekly.cache, <<"load_and_aggregate_pbp_data", sess.selected_year>>, now,
                     load_and_aggregate_pbp_data(src[sess.selected_year].pbp,
                                                 src[sess.selected_year].rosters)))

\* One run of the script with widget state sess: the widget state it leaves,
\* what it rendered and the cache it leaves.
Run(sess, src, cch, now) ==
    RunWeekly(sess, src, now,
              Cached(cch, <<"load_weekly_and_ngs_data", sess.selected_year>>, now,
                     [ok |-> TRUE, df |-> load_weekly_and_ngs_data(src[sess.selected_year])]))

---------------------------------------------------------------------------
(* Interactions.  Each is the change of one widget followed by the run of   *)
(* the script that Streamlit starts for it.                                 *)

Rerun(sess, cch) ==
    \E r \in {Run(sess, source, cch, clock)} :
        /\ session' = r.session
        /\ view' = r.view
        /\ cache' = r.cache
        /\ UNCHANGED <<source, clock>>

\* line 111
SelectSeason(y) ==
    /\ y # session.selected_year
    /\ Rerun([session EXCEPT !.selected_year = y], cache)

\* line 112
SelectSeasonType(t) ==
    /\ t # session.season_type_toggle
    /\ Rerun([session EXCEPT !.season_type_toggle = t], cache)

\* line 136
SelectCategory(c) ==
    /\ session.main_category # NoChoice
    /\ c # session.main_category
    /\ Rerun([session EXCEPT !.main_category = c], cache)

\* line 144
SelectDefenseStat(k) ==
    /\ session.defense_stat # NoChoice
    /\ k # session.defense_stat
    /\ Rerun([session EXCEPT !.defense_stat = k], cache)

\* line 165
SelectOffenseStat(k) ==
    /\ session.offense_stat # NoChoice
    /\ k # session.offense_stat
    /\ Rerun([session EXCEPT !.offense_stat = k], cache)

\* line 171
SelectNgsType(t) ==
    /\ session.ngs_type # NoChoice
    /\ t # session.ngs_type
    /\ Rerun([session EXCEPT !.ngs_type = t], cache)

\* line 175
SelectNgsStat(k) ==
    /\ session.ngs_stat # NoChoice
    /\ k \in Range(session.ngs_stat_options)
    /\ k # session.ngs_stat
    /\ Rerun([session EXCEPT !.ngs_stat = k], cache)

\* line 161
SetWeekRange(lo, hi) ==
    /\ session.main_slider # NoRange
    /\ session.main_slider_bounds[1] <= lo /\ lo <= hi /\ hi <= session.main_slider_bounds[2]
    /\ <<lo, hi>> # session.main_slider
    /\ Rerun([session EXCEPT !.main_slider = <<lo, hi>>], cache)

\* line 204
SelectPlayer(p) ==
    /\ session.player_name # NoChoice
    /\ p \in Range(session.player_options)
    /\ p # session.player_name
    /\ Rerun([session EXCEPT !.player_name = p], cache)

\* line 228
SetPlayerWeekRange(lo, hi) ==
    /\ session.player_week_slider # NoRange
    /\ session.player_week_slider_bounds[1] <= lo /\ lo <= hi
    /\ hi <= session.player_week_slider_bounds[2]
    /\ <<lo, hi>> # session.player_week_slider
    /\ Rerun([session EXCEPT !.player_week_slider = <<lo, hi>>], cache)

\* a clear of the selected season's entries only
ClearSelectedOnly(cch) ==
    [k \in {q \in DOMAIN cch : q[2] # session.selected_year} |-> cch[k]]
\* st.cache_data.clear()
CacheClear(cch) == << >>

\* lines 105-108
ClickRefresh ==
    \E r \in {Run([session EXCEPT !.last_refresh = clock], source, CacheClear(cache), clock)} :
        /\ session' = r.session
        /\ view' = r.view
        /\ cache' = r.cache
        /\ UNCHANGED <<source, clock>>

\* time passes
TickStep == 60 * 60 * 6
Tick ==
    /\ clock < MaxTicks * TickStep
    /\ clock' = clock + TickStep
    /\ UNCHANGED <<source, cache, session, view>>

---------------------------------------------------------------------------
(* The record source's data: what nfl_data_py returns for a season.  The    *)
(* tables below are the inputs the specifications draw from.                *)

NA == "<NA>"
Cell(c, v) == IF v = NA THEN << >> ELSE (c :> v)

WeeklyCols ==
    <<"player_display_name", "position", "week", "season_type">> \o DictValues(OFFENSE_STATS)

ZeroStats == [c \in Range(DictValues(OFFENSE_STATS)) |-> 0]

\* a weekly row: every offense counter 0 but passing_yards and receptions
WeeklyRow(name, pos, week, stype, py, rec) ==
    [player_display_name |-> name, week |-> week, season_type |-> stype,
     passing_yards |-> py, receptions |-> rec]
    @@ Cell("position", pos) @@ ZeroStats

Weekly(rows) == [cols |-> WeeklyCols, rows |-> rows]

PassingCols == <<"player_display_name", "season", "week",
                 "avg_time_to_throw", "avg_intended_air_yards", "attempts">>
RushingCols == <<"player_display_name", "season", "week",
                 "efficiency", "rush_yards_over_expected">>
ReceivingCols == <<"player_display_name", "season", "week",
                   "avg_intended_air_yards", "avg_cushion">>
UnknownCols == <<"player_display_name", "season", "week", "avg_cushion">>

\* a tracking row: every metric of its table has the value v
NgsRow(cols, name, season, week, v) ==
    [c \in Range(cols) |->
        CASE c = "player_display_name" -> name
          [] c = "season" -> season
          [] c = "week" -> week
          [] OTHER -> v]

PbpCols ==
    <<"sack", "sack_player_name", "interception", "interception_player_name",
      "fumble_forced", "forced_fumble_player_1_player_name",
      "pass_defense_1_player_name", "fumble", "fumble_recovery_1_player_name">>

NoFlags == [sack |-> 0, interception |-> 0, fumble_forced |-> 0, fumble |-> 0]

\* a play with one defensive event of kind k, credited to player p (or to
\* nobody), its flag f
Event(k, p, f) ==
    Cell(def_stats_dict[k].player_col, p)
    @@ (IF def_stats_dict[k].flag_col = def_stats_dict[k].player_col THEN << >>
        ELSE (def_stats_dict[k].flag_col :> f))
    @@ NoFlags

RosterCols == <<"player_name", "position">>

DefaultWeekly ==
    Weekly(<< WeeklyRow("A", "QB", 1, "REG", 2, 0), WeeklyRow("B", "WR", 2, "REG", 0, 1) >>)

DefaultNgs ==
    [passing |-> [cols |-> PassingCols,
                  rows |-> << NgsRow(PassingCols, "A", DefaultYear, 1, 2) >>],
     rushing |-> [cols |-> RushingCols,
                  rows |-> << NgsRow(RushingCols, "B", DefaultYear, 1, 1) >>],
     receiving |-> [cols |-> ReceivingCols,
                    rows |-> << NgsRow(ReceivingCols, "B", DefaultYear, 2, 1) >>]]

DefaultPbp ==
    [cols |-> PbpCols, rows |-> << Event(1, "B", 1), Event(1, "C", 0), Event(4, "C", 0) >>]

DefaultRosters ==
    [cols |-> RosterCols, rows |-> << [player_name |-> "B", position |-> "DE"] >>]

DefaultSeason ==
    [weekly |-> DefaultWeekly, ngs |-> DefaultNgs, pbp |-> DefaultPbp,
     rosters |-> DefaultRosters]

\* a season the source has no rows for
EmptySeason ==
    [weekly |-> Weekly(<< >>),
     ngs |-> [passing |-> [cols |-> PassingCols, rows |-> << >>],
              rushing |-> [cols |-> RushingCols, rows |-> << >>],
              receiving |-> [cols |-> ReceivingCols, rows |-> << >>]],
     pbp |-> [cols |-> PbpCols, rows |-> << >>],
     rosters |-> [cols |-> RosterCols, rows |-> << >>]]

\* the state after the first run of the script, over the source src
FirstRun(src) ==
    LET sess0 == [SidebarOnly([selected_year |-> DefaultYear,
                               season_type_toggle |-> SeasonTypes[1],
                               last_refresh |-> 0])
                  EXCEPT !.last_refresh = 0]
    IN  \E r \in {Run(sess0, src, << >>, 0)} :
            /\ source = src
            /\ clock = 0
            /\ cache = r.cache
            /\ session = r.session
            /\ view = r.view

OnlySeason(s) == [y \in Range(Years) |-> IF y = DefaultYear THEN s ELSE EmptySeason]

---------------------------------------------------------------------------
(* Spec: the leaderboards of tab1 over one loaded season.                   *)

WeekValues == 1..MaxWeek

\* weekly tables of two players: positions missing or changing between weeks,
\* weeks in and out of any range, regular and post season, zero totals
LeaderWeeklies ==
    { Weekly(<< WeeklyRow("A", "QB", 1, "REG", 1, 0),
                WeeklyRow("A", posA, wA, tA, 1, 0),
                WeeklyRow("B", posB, MaxWeek, "REG", vB, 1) >>) :
        posA \in {"QB", "WR", NA}, wA \in {1, 2}, tA \in {"REG", "POST"},
        posB \in {"WR", NA}, vB \in {0, 2} }

\* a weekly table without the receptions column
NoReceptions(df) ==
    LET Keep(c) == c # "receptions"
    IN  [cols |-> SelectSeq(df.cols, Keep),
         rows |-> [i \in DOMAIN df.rows |->
                     [c \in DOMAIN df.rows[i] \ {"receptions"} |-> df.rows[i][c]]]]

\* tracking tables: weeks outside the weekly table's weeks (week 0 is the
\* season total), several games of a player, another season's rows, a table
\* with no known metric
LeaderNgs ==
    { [DefaultNgs EXCEPT
         !.passing = [cols |-> PassingCols,
                      rows |-> << NgsRow(PassingCols, "A", DefaultYear, 1, 2),
                                  NgsRow(PassingCols, "A", DefaultYear, wA, 4),
                                  NgsRow(PassingCols, "B", yB, 1, vB) >>]] :
        wA \in 0..MaxWeek, yB \in {DefaultYear, DefaultYear - 1}, vB \in {0, 3} }
    \cup { [DefaultNgs EXCEPT
              !.receiving = [cols |-> UnknownCols,
                             rows |-> << NgsRow(UnknownCols, "B", DefaultYear, 2, 1) >>]] }

\* play-by-play tables: all columns, a flag column missing, a player column
\* missing, no defensive column at all
WithoutCols(df, gone) ==
    LET Keep(c) == c \notin gone
    IN  [cols |-> SelectSeq(df.cols, Keep),
         rows |-> [i \in DOMAIN df.rows |->
                     [c \in DOMAIN df.rows[i] \ gone |-> df.rows[i][c]]]]

LeaderPbps ==
    { WithoutCols([cols |-> PbpCols, rows |-> rows], gone) :
        rows \in { << >>, << Event(1, "B", 0) >>, DefaultPbp.rows },
        gone \in { {}, {"sack"}, {"interception_player_name"}, Range(PbpCols) } }

\* crowded tables: more players than a leaderboard has rows
CrowdWeekly ==
    Weekly([i \in 1..CrowdSize |-> WeeklyRow(CrowdName(i), "QB", 1, "REG", i % 3, 0)])

CrowdNgs ==
    [DefaultNgs EXCEPT
       !.rushing = [cols |-> RushingCols,
                    rows |-> [i \in 1..CrowdSize |->
                                NgsRow(RushingCols, CrowdName(i), DefaultYear, 1, i % 4)]]]

CrowdPbp ==
    [cols |-> PbpCols,
     rows |-> [i \in 1..(2 * CrowdSize) |->
                 Event(1, CrowdName(1 + (i % CrowdSize)), IF i % 5 = 0 THEN 0 ELSE 1)]]

LeaderSeasons ==
    { [DefaultSeason EXCEPT !.weekly = w] : w \in LeaderWeeklies }
    \cup { [DefaultSeason EXCEPT !.weekly = NoReceptions(DefaultWeekly)] }
    \cup { [DefaultSeason EXCEPT !.ngs = n] : n \in LeaderNgs }
    \cup { [DefaultSeason EXCEPT !.pbp = p] : p \in LeaderPbps }
    \cup { [DefaultSeason EXCEPT !.weekly = CrowdWeekly],
           [DefaultSeason EXCEPT !.ngs = CrowdNgs],
           [DefaultSeason EXCEPT !.pbp = CrowdPbp] }

Init == \E s \in LeaderSeasons : FirstRun(OnlySeason(s))

Next ==
    \/ \E t \in Range(SeasonTypes) : SelectSeasonType(t)
    \/ \E c \in Range(Categories) : SelectCategory(c)
    \/ \E k \in Range(DictKeys(DEFENSE_STATS)) : SelectDefenseStat(k)
    \/ \E k \in Range(DictKeys(OFFENSE_STATS)) : SelectOffenseStat(k)
    \/ \E t \in Range(NgsTypes) : SelectNgsType(t)
    \/ \E k \in Range(DictValues(NGS_TRANSLATIONS)) : SelectNgsStat(k)
    \/ \E lo \in WeekValues, hi \in WeekValues : SetWeekRange(lo, hi)

Spec == Init /\ [][Next]_vars

---------------------------------------------------------------------------
(* SpecDefense: the defensive aggregation over drawn play events.           *)

\* the plays a play-by-play table is drawn from
EventUniverse ==
    << Event(1, "A", 1), Event(1, "B", 0), Event(2, "B", 1),
       Event(4, "A", 0), Event(4, "C", 0), Event(5, "B", 1) >>

\* the non-decreasing index sequences of length n over 1..m
RECURSIVE Draws(_, _)
Draws(n, m) ==
    IF n = 0 THEN { << >> }
    ELSE UNION { { Append(d, e) : e \in (IF d = << >> THEN 1 ELSE d[Len(d)])..m } :
                    d \in Draws(n - 1, m) }

\* play-by-play tables of at most MaxEvents plays, with all the defensive
\* columns or with one player column missing
DefensePbps ==
    { WithoutCols([cols |-> PbpCols, rows |-> [i \in DOMAIN d |-> EventUniverse[d[i]]]], gone) :
        d \in UNION { Draws(n, Len(EventUniverse)) : n \in 0..MaxEvents },
        gone \in { {}, {"interception_player_name"} } }

\* rosters: nobody, one player, a player listed twice and a row without name
DefenseRosters ==
    { [cols |-> RosterCols, rows |-> rows] :
        rows \in { << >>,
                   << [player_name |-> "B", position |-> "DE"] >>,
                   << [player_name |-> "A", position |-> "QB"],
                      [player_name |-> "B", position |-> "DE"],
                      [position |-> "WR"],
                      [player_name |-> "B", position |-> "WR"] >> } }

InitDefense ==
    \E p \in DefensePbps, r \in DefenseRosters :
        FirstRun(OnlySeason([DefaultSeason EXCEPT !.pbp = p, !.rosters = r]))

NextDefense ==
    \/ \E c \in Range(Categories) : SelectCategory(c)
    \/ \E k \in Range(DictKeys(DEFENSE_STATS)) : SelectDefenseStat(k)
    \/ ClickRefresh

SpecDefense == InitDefense /\ [][NextDefense]_vars

---------------------------------------------------------------------------
(* SpecPlayer: the player summary of tab2.                                  *)

\* weekly tables of two players: totals that are zero over the season, zero
\* in some weeks only, or in the post season only
PlayerWeeklies ==
    { Weekly(<< WeeklyRow("A", "QB", 1, "REG", a1, 0),
                WeeklyRow("A", "QB", 2, tA, a2, r2),
                WeeklyRow("A", "QB", MaxWeek, "REG", 0, 0),
                WeeklyRow("B", "WR", 2, "REG", 0, b) >>) :
        a1 \in {0, 2}, a2 \in {0, 1}, r2 \in {0, 1}, tA \in {"REG", "POST"}, b \in {0, 1} }

InitPlayer ==
    \E w \in PlayerWeeklies : FirstRun(OnlySeason([DefaultSeason EXCEPT !.weekly = w]))

NextPlayer ==
    \/ \E t \in Range(SeasonTypes) : SelectSeasonType(t)
    \/ \E p \in Range(AllNames) : SelectPlayer(p)
    \/ \E lo \in WeekValues, hi \in WeekValues : SetPlayerWeekRange(lo, hi)

SpecPlayer == InitPlayer /\ [][NextPlayer]_vars

---------------------------------------------------------------------------
(* SpecCache: the cache, the clock and a source that publishes new data.    *)

\* what the source can publish for a season
Publications ==
    << DefaultSeason,
       [DefaultSeason EXCEPT
          !.weekly = Weekly(<< WeeklyRow("A", "QB", 1, "REG", 2, 0),
                               WeeklyRow("B", "WR", 2, "REG", 5, 1) >>),
          !.pbp = [cols |-> PbpCols, rows |-> << Event(1, "C", 1) >>]] >>

\* the season the source publishes new data for
Published == {Years[1 + 2]}

\* the source replaces the data of season y
UpstreamPublish(y, s) ==
    /\ source[y] # s
    /\ source' = [source EXCEPT ![y] = s]
    /\ UNCHANGED <<cache, clock, session, view>>

InitCache ==
    FirstRun([y \in Range(Years) |->
                 IF y \in Published \cup {DefaultYear} THEN Publications[1] ELSE EmptySeason])

NextCache ==
    \/ \E y \in Range(Years) : SelectSeason(y)
    \/ ClickRefresh
    \/ Tick
    \/ \E y \in Published, i \in DOMAIN Publications : UpstreamPublish(y, Publications[i])

SpecCache == InitCache /\ [][NextCache]_vars

---------------------------------------------------------------------------
(* Properties.  The source of Spec, SpecDefense and SpecPlayer never        *)
(* changes, so the tables the last run read are those of the source.        *)

OnDefense == view.status = "ok" /\ session.main_category = "Defense"
OnOffense == view.status = "ok" /\ session.main_category = "Offense"
OnNgs == view.status = "ok" /\ session.main_category = "Next Gen Stats"

WeeklyShown ==
    SeasonTypeFilter(source[session.selected_year].weekly, session.season_type_toggle)
NgsShown ==
    OfSeason(source[session.selected_year].ngs[Lower(session.ngs_type)], session.selected_year)
DefensiveShown == cache[<<"load_and_aggregate_pbp_data", session.selected_year>>].value

\* the table a leaderboard of the offense or Next Gen path is asked of
AskedFrame == IF OnOffense THEN WeeklyShown ELSE NgsShown
\* its rows inside the selected week range
AskedInRange == InWeeks(AskedFrame, view.week_range[1], view.week_range[2])
\* the table the code aggregates
LeadersFrame == IF OnOffense THEN AskedInRange ELSE NgsShown

BoardValue(i) == view.leaderboard[i][view.stat_column]
BoardKey(i) == Project(view.leaderboard[i], view.groupby_cols)

\* C1: every leaderboard, on the defense, offense and Next Gen paths, has at
\* most 20 rows, its ranks are exactly 1..length, and the metric value at
\* rank i is at least the value at rank i+1.
C1_LeaderboardOrdered ==
    view.has_board =>
        /\ Len(view.leaderboard) <= TopN
        /\ {view.leaderboard[i].rank : i \in DOMAIN view.leaderboard}
               = 1..Len(view.leaderboard)
        /\ \A i \in DOMAIN view.leaderboard : view.leaderboard[i].rank = i
        /\ \A i \in 1..(Len(view.leaderboard) - 1) : BoardValue(i) >= BoardValue(i + 1)

\* a leaderboard cut to 20 rows out of more groups, with unequal values
C1_Witness ==
    /\ OnDefense /\ view.has_board
    /\ Len(DefensiveShown.rows) > TopN
    /\ Len(view.leaderboard) = TopN
    /\ BoardValue(1) > BoardValue(TopN)

\* C2: on the offense and Next Gen paths the aggregate shown for a group is
\* the sum of the group's metric over exactly the source rows whose week is
\* inside the selected range [lo, hi].
C2_WeekRangeRespected ==
    (~OnDefense /\ view.has_board) =>
        \A i \in DOMAIN view.leaderboard :
            BoardValue(i) = SumCol(RowsOf(AskedInRange.rows, BoardKey(i)), view.stat_column)

\* the number of plays of pbp that count for player p in kind k: a play
\* names p in the kind's player column and, for the flagged kinds, has the
\* kind's flag set
Credited(pbp, k, p) ==
    Cardinality({ i \in DOMAIN pbp.rows :
        /\ ~IsNa(pbp.rows[i], def_stats_dict[k].player_col)
        /\ pbp.rows[i][def_stats_dict[k].player_col] = p
        /\ \/ def_stats_dict[k].stat_name \in {"passes_defended", "fumbles_recovered"}
           \/ pbp.rows[i][def_stats_dict[k].flag_col] = 1 })

\* the kinds that have a per-kind table: their player column is in the plays
KindsOf(pbp) == {k \in DOMAIN def_stats_dict : HasCol(pbp, def_stats_dict[k].player_col)}

CreditedPlayers(pbp) ==
    {p \in Range(AllNames) : \E k \in KindsOf(pbp) : Credited(pbp, k, p) > 0}

RowsNamed(df, p) ==
    {i \in DOMAIN df.rows : ~IsNa(df.rows[i], "player_display_name")
                            /\ df.rows[i].player_display_name = p}

\* C3: the defensive aggregation has exactly one row for every player of at
\* least one per-kind table and no other row; in that row the counter of each
\* kind is the player's count, 0 for a kind the player does not appear in.
C3_OneRowPerCreditedPlayer ==
    \A key \in DOMAIN cache :
        key[1] = "load_and_aggregate_pbp_data" =>
            /\ \A p \in CreditedPlayers(source[key[2]].pbp) :
                   Cardinality(RowsNamed(cache[key].value, p)) = 1
            /\ \A i \in DOMAIN cache[key].value.rows :
                   /\ ~IsNa(cache[key].value.rows[i], "player_display_name")
                   /\ cache[key].value.rows[i].player_display_name
                          \in CreditedPlayers(source[key[2]].pbp)
                   /\ \A k \in KindsOf(source[key[2]].pbp) :
                          /\ ~IsNa(cache[key].value.rows[i], def_stats_dict[k].stat_name)
                          /\ cache[key].value.rows[i][def_stats_dict[k].stat_name]
                                 = Credited(source[key[2]].pbp, k,
                                            cache[key].value.rows[i].player_display_name)

\* an aggregate of several players out of several kinds, one of them with a
\* kind that defaults to 0, over a roster that lists a player twice
C3_Witness ==
    \E key \in DOMAIN cache :
        /\ OnDefense /\ view.has_board
        /\ key = <<"load_and_aggregate_pbp_data", session.selected_year>>
        /\ Len(cache[key].value.rows) >= 2
        /\ \E i \in DOMAIN cache[key].value.rows :
               /\ cache[key].value.rows[i].sacks = 0
               /\ cache[key].value.rows[i].passes_defended > 0
        /\ Len(source[key[2]].rosters.rows) > Cardinality(ColValues(source[key[2]].rosters.rows,
                                                                     "player_name")) + 1

\* the selected player's rows of the season
PlayerShown == PlayerRows(WeeklyShown, session.player_name)

\* the player summary of the state is the one of the whole season
C4_SummaryOfSeason ==
    view.status = "ok" =>
        /\ Range(view.cols_with_data)
               = {c \in Range(DictValues(OFFENSE_STATS)) : SumCol(PlayerShown.rows, c) > 0}
        /\ Len(view.cols_with_data) = Cardinality(Range(view.cols_with_data))
        /\ view.has_agg_table = (view.cols_with_data # <<>>)
        /\ view.has_agg_table =>
               /\ view.agg_stats =
                      [i \in DOMAIN view.cols_with_data |->
                          <<RenameCol(view.cols_with_data[i], COLUMN_RENAME_MAP),
                            SumCol(PlayerShown.rows, view.cols_with_data[i])>>]
               /\ view.has_per_game
               /\ view.per_game =
                      [i \in DOMAIN PlayerShown.rows |->
                          [c \in {"week"} \cup Range(view.cols_with_data) |->
                              PlayerShown.rows[i][c]]]

\* a step that changes the player week range and neither the player nor the
\* season type
WeekRangeChanges ==
    /\ session'.player_week_slider # session.player_week_slider
    /\ session'.player_name = session.player_name
    /\ session'.season_type_toggle = session.season_type_toggle

\* C4: cols_with_data is exactly the offense columns whose sum over all of
\* the player's rows is positive, whatever the player week range; the
\* full-season table has one entry per column of cols_with_data; a change of
\* the week range changes neither cols_with_data, the full-season table nor
\* the per-game series, which covers all of the player's weeks.
C4_SummaryColumnsStable ==
    /\ []C4_SummaryOfSeason
    /\ [][WeekRangeChanges =>
             /\ view'.cols_with_data = view.cols_with_data
             /\ view'.agg_stats = view.agg_stats
             /\ view'.per_game = view.per_game]_vars

\* a summary under a narrowed range whose range table differs from the
\* full-season table
C4_Witness ==
    /\ view.has_agg_table
    /\ session.player_week_slider # session.player_week_slider_bounds
    /\ view.range_agg_stats # view.agg_stats
    /\ Len(view.per_game) > 1

\* C5: the defense leaderboard ranks no row whose value is <= 0, and is cut
\* to 20 after they are left out; the offense and Next Gen leaderboards keep
\* a group whose aggregate is 0, which is ranked when fewer than 20 groups
\* have a larger aggregate.
C5_PositiveOnDefenseOnly ==
    /\ (OnDefense /\ view.has_board) =>
           /\ \A i \in DOMAIN view.leaderboard : BoardValue(i) > 0
           /\ Len(view.leaderboard)
                  = Min(TopN, Cardinality({j \in DOMAIN DefensiveShown.rows :
                                              DefensiveShown.rows[j][view.stat_column] > 0}))
    /\ (~OnDefense /\ view.has_board) =>
           \E groups \in {GroupBySum(LeadersFrame, view.groupby_cols, view.stat_column)} :
               /\ Len(view.leaderboard) = Min(TopN, Len(groups))
               /\ (/\ \E j \in DOMAIN groups : groups[j][view.stat_column] = 0
                   /\ Cardinality({j \in DOMAIN groups : groups[j][view.stat_column] > 0}) < TopN)
                  => \E i \in DOMAIN view.leaderboard : BoardValue(i) = 0

\* a defense leaderboard over a table that has a row without a positive value
C5_Witness ==
    /\ OnDefense /\ view.has_board
    /\ view.leaderboard # <<>>
    /\ \E j \in DOMAIN DefensiveShown.rows : DefensiveShown.rows[j][view.stat_column] <= 0

\* the table the selected statistic is asked of
StatFrame == IF OnDefense THEN DefensiveShown ELSE AskedFrame

\* C6: a statistic column that is absent from its table gives an empty
\* result (an empty defensive table, no leaderboard); no run ends in a
\* failure.
C6_MissingColumnNeverFails ==
    /\ view.status # "error"
    /\ (view.status = "ok" /\ ~HasCol(StatFrame, view.stat_column)) => ~view.has_board

\* C7: on the Next Gen path the value shown for a player is the mean of the
\* metric over the player's rows when the column name contains "avg", and
\* the sum otherwise.
C7_AverageMetricsAreMeans ==
    (OnNgs /\ view.has_board) =>
        \A i \in DOMAIN view.leaderboard :
            IF HasAvg(view.stat_column)
            THEN BoardValue(i) * Len(RowsOf(NgsShown.rows, BoardKey(i)))
                     = SumCol(RowsOf(NgsShown.rows, BoardKey(i)), view.stat_column)
            ELSE BoardValue(i) = SumCol(RowsOf(NgsShown.rows, BoardKey(i)), view.stat_column)

\* the messages that say a result has no data: about the leaderboard and
\* the season's data, and about the player summary
LeaderboardNotices == {"no_offensive_data"}
SummaryNotices == {"no_recorded_stats", "no_stats_in_range"}

\* C8: an empty leaderboard (none rendered, or one without rows) and an
\* empty player summary (no column with data, or no positive range sum) are
\* each accompanied by an explicit "no data" message.
C8_EmptyResultsAreAnnounced ==
    view.status = "ok" =>
        /\ (~view.has_board \/ view.leaderboard = <<>>)
               => view.messages \cap LeaderboardNotices # {}
        /\ (~view.has_agg_table \/ ~view.has_range_table)
               => view.messages \cap SummaryNotices # {}

\* what a loader computes for a cache key from the source src
FreshLoad(src, key) ==
    IF key[1] = "load_weekly_and_ngs_data"
    THEN load_weekly_and_ngs_data(src[key[2]])
    ELSE load_and_aggregate_pbp_data(src[key[2]].pbp, src[key[2]].rosters).df

\* C9: a refresh clears every entry of every loader and year, so what the
\* cache holds after it was computed from the source by the run that
\* followed; a second refresh, with no change upstream, renders what the
\* first rendered.
C9_RefreshClearsEverything ==
    [][ClickRefresh =>
          /\ \A key \in DOMAIN cache' :
                 /\ key[2] = session'.selected_year
                 /\ cache'[key] = [value |-> FreshLoad(source', key), stored |-> clock']
          /\ Run([session' EXCEPT !.last_refresh = clock'], source', << >>, clock').view
                 = view']_vars

\* after a refresh in a season selected later, of data published later: the
\* entries of the season loaded first are gone
C9_Witness ==
    /\ clock > 0
    /\ session.last_refresh = clock
    /\ session.selected_year # DefaultYear
    /\ source[session.selected_year] # Publications[1]
    /\ DOMAIN cache # {}
    /\ \A key \in DOMAIN cache : key[2] = session.selected_year

\* C10: on the offense path every player with a row inside the week range
\* forms exactly one group, whose aggregate is the sum over all the player's
\* rows in the range, whatever the positions of those rows; the player is
\* ranked when that total is among the 20 largest.
C10_OneGroupPerPlayer ==
    (OnOffense /\ view.has_board) =>
        \A p \in ColValues(AskedInRange.rows, "player_display_name") :
            \E places \in {RowsNamed([rows |-> view.leaderboard], p)} :
                /\ Cardinality(places) <= 1
                /\ \A i \in places :
                       BoardValue(i) = SumCol(RowsAt(AskedInRange.rows, "player_display_name", p),
                                              view.stat_column)
                /\ places = {} =>
                       /\ Len(view.leaderboard) = TopN
                       /\ BoardValue(TopN) >= SumCol(RowsAt(AskedInRange.rows,
                                                            "player_display_name", p),
                                                     view.stat_column)

=============================================================================
